---- MODULE Spec2Model ----
(***************************************************************************)
(* The update_scores edge function of KeshaKeks: a request carries         *)
(* Telegram WebApp init data and a claimed run; the handler verifies the   *)
(* init data, reads the caller's leaderboard row, merges the claimed       *)
(* scores into it and upserts the row.                                     *)
(*                                                                         *)
(* The repository holds the handler in two variants:                       *)
(*   "permissive"  src/unnamed/part_000: auth_date is enforced, the HMAC   *)
(*                 check is only logged;                                   *)
(*   "strict"      src/supabase/functions/update_scores/index.ts: the HMAC *)
(*                 check is enforced, auth_date is not looked at.          *)
(* The variable variant says which one is deployed.                        *)
(*                                                                         *)
(* Strings that the code only compares or looks up are TLA+ strings; the   *)
(* display name, which the code trims and matches against a regular        *)
(* expression, is a sequence of UTF-16 code units.  A request whose        *)
(* runScore / totalScore is not a JSON number (or absent) is outside the   *)
(* model.                                                                  *)
(***************************************************************************)
EXTENDS Integers, Sequences, FiniteSets, TLC

(* ------------------------------ bounds -------------------------------- *)

\* Claimed scores range over -1 .. MaxScore.
MaxScore == 2
\* The clock advances at most MaxTick seconds past Now0.
MaxTick == 1
\* The requests sent in one behaviour.
MaxRequests == 3

(* ------------------------- program constants -------------------------- *)

MaxAge == 86400
NameMin == 4
NameMax == 15
StatusOK == 200
StatusBadRequest == 400
StatusUnauthorized == 401
StatusServerError == 500

\* Date.now() / 1000 when the model starts: the second at which an
\* auth_date of "13600" is exactly MaxAge old.
Now0 == MaxAge + 13600

\* The handler runs concurrently for several requests.
Slots == {1, 2}
\* Telegram user ids that occur in the init data of the model.
Ids == {1, 2}

Max(a, b) == IF a >= b THEN a ELSE b

(* --------------------------- JSON payload ----------------------------- *)

\* A member of the request body: absent, a number, or a string (code units).
Undefined == [t |-> "undefined", n |-> 0, s |-> <<>>]
Num(n) == [t |-> "number", n |-> n, s |-> <<>>]
Str(s) == [t |-> "string", n |-> 0, s |-> s]

\* Number(x ?? 0) for an absent or numeric x.
NumberOrZero(x) == IF x.t = "number" THEN x.n ELSE 0

(* ----------------------------- init data ------------------------------ *)

\* HMAC-SHA256, idealised as an injective function of key and message.
HmacSHA256(key, data) == [key |-> key, data |-> data]
\* toHex: a digest as a hex string; <<>> is the empty string.
ToHex(sig) == << sig >>

BotToken == "bot-token"
AttackerToken == "attacker-token"

\* initData is [pairs |-> the key=value parts other than hash, in the order
\* of the query string, values still percent-encoded; hash |-> the value of
\* the hash part, <<>> when there is none].
EmptyInitData == [pairs |-> <<>>, hash |-> <<>>]

\* The keys of the model in byte order (Array.prototype.sort's order).
KeyRank(k) ==
  CASE k = "auth_date" -> 1
    [] k = "query_id" -> 2
    [] k = "signature" -> 3
    [] k = "user" -> 4

\* The decoded values of the model in byte order.
StrOrder ==
  << "", "%", "100000", "100001", "13600", "abc", "q1", "q2", "sig",
     "{\"id\":0}", "{\"id\":1}", "{\"id\":2}", "{x", "{}" >>
StrRank(s) == CHOOSE i \in 1..Len(StrOrder) : StrOrder[i] = s

\* Percent-decoding as URLSearchParams does it: a malformed escape is kept.
UrlDecode(raw) ==
  CASE raw = "%7B%22id%22%3A1%7D" -> "{\"id\":1}"
    [] raw = "%7B%22id%22%3A2%7D" -> "{\"id\":2}"
    [] raw = "%7B%22id%22%3A0%7D" -> "{\"id\":0}"
    [] raw = "%7B%7D" -> "{}"
    [] raw = "%7Bx" -> "{x"
    [] OTHER -> raw

\* decodeURIComponent throws URIError on a malformed escape.
UriMalformed(raw) == raw = "%"
DecodeURIComponent(raw) == UrlDecode(raw)

\* parseInt(s, 10): NaN for a string that does not start with digits.
ParseInt(s) ==
  CASE s = "0" -> [nan |-> FALSE, n |-> 0]
    [] s = "13600" -> [nan |-> FALSE, n |-> 13600]
    [] s = "100000" -> [nan |-> FALSE, n |-> 100000]
    [] s = "100001" -> [nan |-> FALSE, n |-> 100001]
    [] OTHER -> [nan |-> TRUE, n |-> 0]

\* JSON.parse(userStr)?.id, 0 standing for every falsy outcome: no user
\* string, a string that is not JSON (the catch), an object without id, id 0.
UserIdOf(userStr) ==
  CASE userStr = "{\"id\":1}" -> 1
    [] userStr = "{\"id\":2}" -> 2
    [] OTHER -> 0

\* URLSearchParams.get(name): the first value of the key, decoded; <<>> wraps
\* the absent value (null).
SearchGet(initData, name) ==
  LET hits == SelectSeq(initData.pairs, LAMBDA p : p[1] = name)
  IN  IF hits = <<>> THEN <<>> ELSE << UrlDecode(hits[1][2]) >>

\* x || dflt for the result of SearchGet (null and "" are falsy).
OrElse(got, dflt) == IF got = <<>> \/ got[1] = "" THEN dflt ELSE got[1]

\* The pairs as an object keeps them: a later value of a key replaces the
\* earlier one.
RECURSIVE LastWins(_)
LastWins(pairs) ==
  IF pairs = <<>> THEN <<>>
  ELSE LET rest == Tail(pairs)
       IN  IF \E i \in 1..Len(rest) : rest[i][1] = pairs[1][1]
           THEN LastWins(rest)
           ELSE << pairs[1] >> \o LastWins(rest)

KeyLess(a, b) == KeyRank(a[1]) < KeyRank(b[1])
\* The order of the strings "k,v": none of the model's keys is a prefix of
\* another, so the key decides and then the value.
EntryLess(a, b) ==
  \/ KeyRank(a[1]) < KeyRank(b[1])
  \/ a[1] = b[1] /\ StrRank(a[2]) < StrRank(b[2])

NotSignature(p) == p[1] # "signature"
\* The parts that enter the data-check string, each value decoded.
ParamsPermissive(initData) ==
  LET kept == SelectSeq(initData.pairs, NotSignature)
  IN  [i \in 1..Len(kept) |-> << kept[i][1], DecodeURIComponent(kept[i][2]) >>]
ParamsStrict(initData) ==
  LET kept == SelectSeq(initData.pairs, NotSignature)
  IN  [i \in 1..Len(kept) |-> << kept[i][1], UrlDecode(kept[i][2]) >>]

\* dataCheckString of the permissive variant: the lines "k=v" as a sequence.
DataCheckStringPermissive(initData) ==
  SortSeq(LastWins(ParamsPermissive(initData)), KeyLess)

\* dataCheckString of the strict variant.
DataCheckStringStrict(initData) ==
  SortSeq(ParamsStrict(initData), EntryLess)

\* hex(HMAC(HMAC(botToken, "WebAppData"), dataCheckString))
CalcHash(botToken, dataCheckString) ==
  ToHex(HmacSHA256(HmacSHA256(botToken, "WebAppData"), dataCheckString))

\* verifyTelegramInitData of the permissive variant; throws when a value
\* (other than the hash and the signature) has a malformed escape.
VerifyThrows(initData) ==
  \E i \in 1..Len(initData.pairs) :
    /\ NotSignature(initData.pairs[i])
    /\ UriMalformed(initData.pairs[i][2])
VerifyPermissive(initData, botToken) ==
  CalcHash(botToken, DataCheckStringPermissive(initData)) = initData.hash

\* verifyTelegramInitData of the strict variant.
VerifyStrict(initData, botToken) ==
  CalcHash(botToken, DataCheckStringStrict(initData)) = initData.hash

\* const age = now - parseInt(get('auth_date') || '0'); age > 86400 || age < 0
AuthDate(initData) == ParseInt(OrElse(SearchGet(initData, "auth_date"), "0"))
AgeRejected(initData, t) ==
  LET authDate == AuthDate(initData)
      age == t - authDate.n
  IN  ~authDate.nan /\ (age > MaxAge \/ age < 0)

\* (the id of the last user part instead of the first)
TelegramIdOfLastUser(initData) ==
  LET hits == SelectSeq(initData.pairs, LAMBDA p : p[1] = "user")
  IN  IF hits = <<>> THEN 0 ELSE UserIdOf(UrlDecode(hits[Len(hits)][2]))
\* user?.id
TelegramIdOf(initData) == UserIdOf(OrElse(SearchGet(initData, "user"), ""))

(* --------------------------- display name ----------------------------- *)

\* White space String.prototype.trim removes (the code units of the model).
WhiteSpace == {9, 10, 13, 32, 160}

RECURSIVE TrimStart(_)
TrimStart(s) ==
  IF s # <<>> /\ s[1] \in WhiteSpace THEN TrimStart(Tail(s)) ELSE s
RECURSIVE TrimEnd(_)
TrimEnd(s) ==
  IF s # <<>> /\ s[Len(s)] \in WhiteSpace THEN TrimEnd(SubSeq(s, 1, Len(s) - 1)) ELSE s
Trim(s) == TrimEnd(TrimStart(s))

\* The character class [A-Za-z, Cyrillic A-ya, Yo, yo, 0-9, _, -].
NameChars ==
  (65..90) \cup (97..122) \cup (1040..1071) \cup (1072..1103)
    \cup {1025, 1105} \cup (48..57) \cup {95, 45}

\* const name = typeof displayName === "string" ? displayName.trim() : ""
NameOf(displayName) == IF displayName.t = "string" THEN Trim(displayName.s) ELSE <<>>
\* (a test without the lower bound on the length)
NameOkAnyShort(name) ==
  /\ Len(name) <= NameMax
  /\ \A i \in 1..Len(name) : name[i] \in NameChars
\* /^[...]{4,15}$/.test(name)
NameOk(name) ==
  /\ Len(name) >= NameMin
  /\ Len(name) <= NameMax
  /\ \A i \in 1..Len(name) : name[i] \in NameChars

(* ------------------------------ the store ----------------------------- *)

\* SQL NULL in the username column (no string of code units).
Null == << -1 >>

\* A row of the leaderboard table; present = FALSE is the absent row, which
\* is also what maybeSingle() yields as data on no match or on an error.
NoRow ==
  [present |-> FALSE, telegram_id |-> 0, username |-> Null,
   max_score |-> 0, total_score |-> 0, updated_at |-> 0]

\* cur?.max_score ?? 0 and cur?.total_score ?? 0
CurrentMax(cur) == IF cur.present THEN cur.max_score ELSE 0
CurrentTotal(cur) == IF cur.present THEN cur.total_score ELSE 0

\* (a first save that stores the claimed run score as it is)
NextMaxFirstSaveAsClaimed(cur, runScore) ==
  IF cur.present THEN Max(CurrentMax(cur), NumberOrZero(runScore)) ELSE NumberOrZero(runScore)
NextMax(cur, runScore) == Max(CurrentMax(cur), NumberOrZero(runScore))
NextTotal(cur, totalScore) == Max(CurrentTotal(cur), NumberOrZero(totalScore))

\* (a record that always gets the username member)
SetsUsernameAlways(cur, displayName) == TRUE
\* (a record that gets the username member on the first save only)
SetsUsernameOnFirstSave(cur, displayName) ==
  ~cur.present /\ NameOk(NameOf(displayName))
\* Whether the record gets a username member: (!cur && nameOk) or (cur && nameOk).
SetsUsername(cur, displayName) ==
  \/ ~cur.present /\ NameOk(NameOf(displayName))
  \/ cur.present /\ NameOk(NameOf(displayName))

\* The object handed to upsert; hasUsername says whether it has the member.
BuildRecord(telegramId, cur, q, t) ==
  [telegram_id |-> telegramId,
   max_score |-> NextMax(cur, q.runScore),
   total_score |-> NextTotal(cur, q.totalScore),
   updated_at |-> t,
   hasUsername |-> SetsUsername(cur, q.displayName),
   username |-> IF SetsUsername(cur, q.displayName) THEN NameOf(q.displayName) ELSE Null]

\* (an upsert that replaces the whole row by the record)
UpsertRowReplaces(old, record) ==
  [present |-> TRUE,
   telegram_id |-> record.telegram_id,
   username |-> record.username,
   max_score |-> record.max_score,
   total_score |-> record.total_score,
   updated_at |-> record.updated_at]
\* (an upsert that keeps the greater of the stored and the new score)
UpsertRowMerges(old, record) ==
  [present |-> TRUE,
   telegram_id |-> record.telegram_id,
   username |-> IF record.hasUsername THEN record.username
                ELSE IF old.present THEN old.username ELSE Null,
   max_score |-> IF old.present THEN Max(old.max_score, record.max_score) ELSE record.max_score,
   total_score |-> IF old.present THEN Max(old.total_score, record.total_score)
                   ELSE record.total_score,
   updated_at |-> record.updated_at]
\* upsert(record, { onConflict: "telegram_id" }): insert, or on a row with
\* the same telegram_id set the columns the record has.
UpsertRow(old, record) ==
  [present |-> TRUE,
   telegram_id |-> record.telegram_id,
   username |-> IF record.hasUsername THEN record.username
                ELSE IF old.present THEN old.username ELSE Null,
   max_score |-> record.max_score,
   total_score |-> record.total_score,
   updated_at |-> record.updated_at]

(* ----------------------------- responses ------------------------------ *)

NoResp == [status |-> 0, ok |-> FALSE, error |-> "", hasMe |-> FALSE, me |-> NoRow]
ErrorResp(status, error) ==
  [status |-> status, ok |-> FALSE, error |-> error, hasMe |-> FALSE, me |-> NoRow]
\* { ok: true, me } of the permissive variant; me may be null (NoRow).
OkMeResp(me) == [status |-> StatusOK, ok |-> TRUE, error |-> "", hasMe |-> TRUE, me |-> me]
\* { ok: true } of the strict variant.
OkResp == [status |-> StatusOK, ok |-> TRUE, error |-> "", hasMe |-> FALSE, me |-> NoRow]

\* The message of the error the store returns for a failed upsert.
UpsertErrMessage == "upsert failed"

(* ------------------------------ the gates ----------------------------- *)

\* if (!initData)
MissingInitData(q) == q.initData = EmptyInitData
\* (a handler that does not look at its environment)
MissingEnvIgnored(q) == FALSE
\* if (!supabaseUrl || !serviceRole || !botToken)
MissingEnv(q) == ~q.env
\* The auth_date gate: only the permissive variant has it.
StaleGate(v, q, t) == v = "permissive" /\ AgeRejected(q.initData, t)
\* The permissive variant calls the verifier and only logs its result, but
\* an exception of the verifier reaches the handler's catch.
ThrowGate(v, q) == v = "permissive" /\ VerifyThrows(q.initData)
\* (a gate that lets a request without hash part through)
SignatureGateSkipsNoHash(v, q) ==
  v = "strict" /\ q.initData.hash # <<>> /\ ~VerifyStrict(q.initData, BotToken)
\* (a gate that both variants enforce)
SignatureGateEnforcedByBoth(v, q) == ~VerifyStrict(q.initData, BotToken)
\* The signature gate: only the strict variant rejects on it.
SignatureGate(v, q) == v = "strict" /\ ~VerifyStrict(q.initData, BotToken)
\* if (!telegramId)
NoUserGate(q) == TelegramIdOf(q.initData) = 0

\* (gates that look for the user before the freshness and signature checks)
GatesUserFirst(v, q, t) ==
  IF MissingInitData(q) THEN ErrorResp(StatusBadRequest, "Missing initData")
  ELSE IF MissingEnv(q) THEN ErrorResp(StatusServerError, "Server misconfigured")
  ELSE IF NoUserGate(q) THEN ErrorResp(StatusBadRequest, "No Telegram user")
  ELSE IF StaleGate(v, q, t) THEN ErrorResp(StatusUnauthorized, "Expired or invalid auth_date")
  ELSE IF ThrowGate(v, q) THEN ErrorResp(StatusServerError, "URIError: URI malformed")
  ELSE IF SignatureGate(v, q) THEN ErrorResp(StatusUnauthorized, "Invalid Telegram signature")
  ELSE NoResp
\* The response of the first gate that stops the request, NoResp if none does.
Gates(v, q, t) ==
  IF MissingInitData(q) THEN ErrorResp(StatusBadRequest, "Missing initData")
  ELSE IF MissingEnv(q) THEN ErrorResp(StatusServerError, "Server misconfigured")
  ELSE IF StaleGate(v, q, t) THEN ErrorResp(StatusUnauthorized, "Expired or invalid auth_date")
  ELSE IF ThrowGate(v, q) THEN ErrorResp(StatusServerError, "URIError: URI malformed")
  ELSE IF SignatureGate(v, q) THEN ErrorResp(StatusUnauthorized, "Invalid Telegram signature")
  ELSE IF NoUserGate(q) THEN ErrorResp(StatusBadRequest, "No Telegram user")
  ELSE NoResp

(* --------------------------- the requests ----------------------------- *)

User1 == "%7B%22id%22%3A1%7D"
User2 == "%7B%22id%22%3A2%7D"
AuthPart(a) == << << "auth_date", a >> >>
UserPart(u) == << << "user", u >> >>

\* The hash Telegram puts on the fields it issues (no key twice): the HMAC,
\* under the bot token, of the decoded fields sorted by key.
PlatformHash(botToken, pairs) ==
  CalcHash(botToken,
           SortSeq([i \in 1..Len(pairs) |-> << pairs[i][1], UrlDecode(pairs[i][2]) >>], KeyLess))

\* Init data with the platform's hash, a hash made without the bot token,
\* or no hash part.
Token(pairs, kind) ==
  [pairs |-> pairs,
   hash |-> CASE kind = "signed" -> PlatformHash(BotToken, SelectSeq(pairs, NotSignature))
              [] kind = "forged" -> PlatformHash(AttackerToken, SelectSeq(pairs, NotSignature))
              [] kind = "nohash" -> <<>>]

HashKinds == {"signed", "forged", "nohash"}
AuthParts == {<<>>} \cup {AuthPart(a) : a \in {"100000", "13600", "100001", "abc"}}
\* User parts that yield no id: none, empty, {}, {"id":0}, not JSON.
NoIdParts ==
  {<<>>} \cup {UserPart(u) : u \in {"", "%7B%7D", "%7B%22id%22%3A0%7D", "%7Bx"}}

\* A fresh, signed token of user id.
GoodToken(id) ==
  Token(AuthPart("100000") \o UserPart(IF id = 1 THEN User1 ELSE User2), "signed")

GateTokens ==
  {Token(a \o UserPart(User1), k) : a \in AuthParts, k \in HashKinds}
    \cup {Token(a \o u, k) : a \in {AuthPart("100000"), AuthPart("13600")},
                             u \in NoIdParts, k \in {"signed", "forged"}}
    \cup {Token(UserPart(User1) \o AuthPart("100000"), "signed"),
          Token(AuthPart("100000") \o << << "signature", "sig" >> >> \o UserPart(User1), "signed"),
          Token(AuthPart("100000") \o << << "query_id", "%" >> >> \o UserPart(User1), "signed"),
          Token(AuthPart("100000") \o << << "query_id", "%" >> >>, "signed"),
          [pairs |-> AuthPart("100000") \o UserPart(User1) \o UserPart(User2),
           hash |-> PlatformHash(BotToken, AuthPart("100000") \o UserPart(User2))],
          [pairs |-> AuthPart("100000") \o UserPart(User2),
           hash |-> PlatformHash(BotToken, AuthPart("100000") \o UserPart(User1))],
          GoodToken(2)}

\* The request body, and env: whether the three environment variables are set.
Req(initData, runScore, totalScore, displayName, env) ==
  [initData |-> initData, runScore |-> runScore, totalScore |-> totalScore,
   displayName |-> displayName, env |-> env]
NoReq == Req(EmptyInitData, Undefined, Undefined, Undefined, FALSE)

Scores == {Undefined} \cup {Num(n) : n \in -1..MaxScore}

Kitty == << 107, 105, 116, 116, 121 >>
Abcd == << 97, 98, 99, 100 >>
\* "kitty", " kitty ", "ab", "", four Cyrillic letters, 15 and 16 letters,
\* "name with space".
Names ==
  {Kitty, << 32 >> \o Kitty \o << 32 >>, << 97, 98 >>, <<>>,
   << 1040, 1041, 1042, 1043 >>,
   [i \in 1..NameMax |-> 97], [i \in 1..(NameMax + 1) |-> 97],
   << 110, 97, 109, 101, 32, 119, 105, 116, 104, 32, 115, 112, 97, 99, 101 >>}

\* The requests of the sequential specification: every token with one body,
\* and the good token of user 1 with every score and every name.
SeqRequests ==
  {Req(t, Num(1), Undefined, Undefined, TRUE) : t \in GateTokens \cup {EmptyInitData}}
    \cup {Req(t, Num(1), Undefined, Undefined, FALSE) : t \in {GoodToken(1), EmptyInitData}}
    \cup {Req(GoodToken(1), rs, ts, Undefined, TRUE) :
            rs \in Scores, ts \in {Undefined, Num(-1), Num(MaxScore)}}
    \cup {Req(GoodToken(1), Num(1), Undefined, dn, TRUE) :
            dn \in {Str(n) : n \in Names} \cup {Num(7)}}

\* The requests of the concurrent specification.
ConcRequests ==
  {Req(GoodToken(1), Num(rs), Num(MaxScore + 1 - rs), dn, TRUE) :
     rs \in 1..MaxScore, dn \in {Undefined, Str(Kitty)}}
    \cup {Req(GoodToken(1), Num(1), Num(1), dn, TRUE) :
            dn \in {Str(Abcd), Str(<< 32 >> \o Abcd \o << 9 >>), Str(<< 97, 98 >>), Num(7)}}
    \cup {Req(GoodToken(2), Num(1), Num(1), Undefined, TRUE),
          Req(Token(AuthPart("13600") \o UserPart(User1), "forged"), Num(1), Num(1), Undefined, TRUE)}

(* ------------------------------ the state ----------------------------- *)

VARIABLES
  variant,     \* "strict" or "permissive": the deployed handler
  now,         \* the clock, in seconds
  store,       \* the leaderboard table: telegram_id -> row
  pc,          \* per slot: "idle", "read", "upsert", "refetch", "done"
  req,         \* per slot: the request being handled
  arrival,     \* per slot: the clock when the request came in
  telegramId,  \* per slot: user?.id
  cur,         \* per slot: the row read (data of the first select)
  readErr,     \* per slot: the first select returned an error (not looked at)
  record,      \* per slot: the object built for the upsert
  resp,        \* per slot: the response
  nReads,      \* per slot: selects issued for this request
  nWrites,     \* per slot: upserts issued for this request
  replay,      \* per slot: the request repeats the one that has just succeeded
  nRequests,   \* the requests sent so far
  prior,       \* per slot: the scores persisted before the request, and the
               \* requests it overlaps with, began (a history variable)
  bestClaim    \* per id: the greatest run score claimed by a call that succeeded
               \* (a history variable, kept by the sequential specification)

vars ==
  << variant, now, store, pc, req, arrival, telegramId, cur, readErr, record, resp,
     nReads, nWrites, replay, nRequests, prior, bestClaim >>

NoRecord == BuildRecord(0, NoRow, NoReq, 0)
NoClaim == [any |-> FALSE, max |-> 0]
AddClaim(c, n) == [any |-> TRUE, max |-> IF c.any THEN Max(c.max, n) ELSE n]
NoPrior == [max |-> 0, total |-> 0]
\* The scores of identity id persisted before request r began; a request that
\* begins while another one for id is between its read and its write shares
\* that one's.
PriorOf(r, id) ==
  LET others == {o \in Slots \ {r} : pc[o] \in {"read", "upsert"} /\ telegramId[o] = id}
  IN  IF others # {} THEN prior[CHOOSE o \in others : TRUE]
      ELSE [max |-> CurrentMax(store[id]), total |-> CurrentTotal(store[id])]

Init ==
  /\ variant \in {"strict", "permissive"}
  /\ now = Now0
  /\ store = [i \in Ids |-> NoRow]
  /\ pc = [r \in Slots |-> "idle"]
  /\ req = [r \in Slots |-> NoReq]
  /\ arrival = [r \in Slots |-> 0]
  /\ telegramId = [r \in Slots |-> 0]
  /\ cur = [r \in Slots |-> NoRow]
  /\ readErr = [r \in Slots |-> FALSE]
  /\ record = [r \in Slots |-> NoRecord]
  /\ resp = [r \in Slots |-> NoResp]
  /\ nReads = [r \in Slots |-> 0]
  /\ nWrites = [r \in Slots |-> 0]
  /\ replay = [r \in Slots |-> FALSE]
  /\ nRequests = 0
  /\ prior = [r \in Slots |-> NoPrior]
  /\ bestClaim = [i \in Ids |-> NoClaim]

(* ----------------------------- the handler ---------------------------- *)

\* The handler from the request to its first await on the store: the gates.
Begin(r, q, rp) ==
  LET g == Gates(variant, q, now)
  IN  /\ nRequests < MaxRequests
      /\ nRequests' = nRequests + 1
      /\ req' = [req EXCEPT ![r] = q]
      /\ arrival' = [arrival EXCEPT ![r] = now]
      /\ replay' = [replay EXCEPT ![r] = rp]
      /\ resp' = [resp EXCEPT ![r] = g]
      /\ pc' = [pc EXCEPT ![r] = IF g = NoResp THEN "read" ELSE "done"]
      /\ telegramId' = [telegramId EXCEPT ![r] = IF g = NoResp THEN TelegramIdOf(q.initData) ELSE 0]
      /\ cur' = [cur EXCEPT ![r] = NoRow]
      /\ readErr' = [readErr EXCEPT ![r] = FALSE]
      /\ record' = [record EXCEPT ![r] = NoRecord]
      /\ nReads' = [nReads EXCEPT ![r] = 0]
      /\ nWrites' = [nWrites EXCEPT ![r] = 0]
      /\ prior' = [prior EXCEPT ![r] = IF g = NoResp THEN PriorOf(r, TelegramIdOf(q.initData))
                                       ELSE NoPrior]
      /\ UNCHANGED << variant, now, store, bestClaim >>

\* A client sends a request.
Receive(r, requests) ==
  /\ pc[r] = "idle"
  /\ \E q \in requests : Begin(r, q, FALSE)

\* The client sends the request it has just been answered once more.
Replay(r) ==
  /\ pc[r] = "done"
  /\ Begin(r, req[r], resp[r].ok)

\* select(...).eq("telegram_id", telegramId).maybeSingle(): only data is
\* taken from the result; then the record is built.
Read(r) ==
  /\ pc[r] = "read"
  /\ \E failed \in BOOLEAN :
       LET c == IF failed THEN NoRow ELSE store[telegramId[r]]
       IN  /\ cur' = [cur EXCEPT ![r] = c]
           /\ readErr' = [readErr EXCEPT ![r] = failed]
           /\ record' = [record EXCEPT ![r] = BuildRecord(telegramId[r], c, req[r], now)]
  /\ nReads' = [nReads EXCEPT ![r] = @ + 1]
  /\ pc' = [pc EXCEPT ![r] = "upsert"]
  /\ UNCHANGED << variant, now, store, req, arrival, telegramId, resp, nWrites, replay,
                  nRequests, prior, bestClaim >>

\* What the handler does with a successful upsert: the strict variant
\* answers { ok: true }; the permissive one answers with the row the upsert
\* returned, or goes on to read it when the upsert returned none.
AfterUpsert(v, returned, row) ==
  IF v = "strict" THEN [pc |-> "done", resp |-> OkResp]
  ELSE IF returned THEN [pc |-> "done", resp |-> OkMeResp(row)]
  ELSE [pc |-> "refetch", resp |-> NoResp]

\* upsert(record, { onConflict: "telegram_id" }).select(...); cur and record
\* are not used after it.
Upsert(r, history) ==
  /\ pc[r] = "upsert"
  /\ nWrites' = [nWrites EXCEPT ![r] = @ + 1]
  /\ prior' = [prior EXCEPT ![r] = NoPrior]
  /\ \/ /\ resp' = [resp EXCEPT ![r] = ErrorResp(StatusBadRequest, UpsertErrMessage)]
        /\ pc' = [pc EXCEPT ![r] = "done"]
        /\ cur' = [cur EXCEPT ![r] = NoRow]
        /\ record' = [record EXCEPT ![r] = NoRecord]
        /\ UNCHANGED << store, bestClaim >>
     \/ \E returned \in BOOLEAN :
          LET row == UpsertRow(store[telegramId[r]], record[r])
              next == AfterUpsert(variant, returned, row)
          IN  /\ store' = [store EXCEPT ![telegramId[r]] = row]
              /\ bestClaim' = IF history
                               THEN [bestClaim EXCEPT ![telegramId[r]] =
                                       AddClaim(@, NumberOrZero(req[r].runScore))]
                               ELSE bestClaim
              /\ resp' = [resp EXCEPT ![r] = next.resp]
              /\ pc' = [pc EXCEPT ![r] = next.pc]
              /\ cur' = [cur EXCEPT ![r] = NoRow]
              /\ record' = [record EXCEPT ![r] = NoRecord]
  /\ UNCHANGED << variant, now, req, arrival, telegramId, readErr, nReads, replay, nRequests >>

\* The second select of the permissive variant: me = refetched.
Refetch(r) ==
  /\ pc[r] = "refetch"
  /\ \E failed \in BOOLEAN :
       resp' = [resp EXCEPT ![r] = OkMeResp(IF failed THEN NoRow ELSE store[telegramId[r]])]
  /\ nReads' = [nReads EXCEPT ![r] = @ + 1]
  /\ pc' = [pc EXCEPT ![r] = "done"]
  /\ UNCHANGED << variant, now, store, req, arrival, telegramId, cur, readErr, record,
                  nWrites, replay, nRequests, prior, bestClaim >>

\* The response has gone out; the slot takes the next request.
Reply(r) ==
  /\ pc[r] = "done"
  /\ pc' = [pc EXCEPT ![r] = "idle"]
  /\ req' = [req EXCEPT ![r] = NoReq]
  /\ arrival' = [arrival EXCEPT ![r] = 0]
  /\ telegramId' = [telegramId EXCEPT ![r] = 0]
  /\ cur' = [cur EXCEPT ![r] = NoRow]
  /\ readErr' = [readErr EXCEPT ![r] = FALSE]
  /\ record' = [record EXCEPT ![r] = NoRecord]
  /\ resp' = [resp EXCEPT ![r] = NoResp]
  /\ nReads' = [nReads EXCEPT ![r] = 0]
  /\ nWrites' = [nWrites EXCEPT ![r] = 0]
  /\ replay' = [replay EXCEPT ![r] = FALSE]
  /\ UNCHANGED << variant, now, store, nRequests, prior, bestClaim >>

\* A second passes.
Tick ==
  /\ now < Now0 + MaxTick
  /\ now' = now + 1
  /\ UNCHANGED << variant, store, pc, req, arrival, telegramId, cur, readErr, record, resp,
                  nReads, nWrites, replay, nRequests, prior, bestClaim >>

\* Requests are handled concurrently.
Next ==
  \/ \E r \in Slots : Receive(r, ConcRequests)
  \/ \E r \in Slots : Read(r)
  \/ \E r \in Slots : Upsert(r, FALSE)
  \/ \E r \in Slots : Refetch(r)
  \/ \E r \in Slots : Reply(r)

Spec == Init /\ [][Next]_vars

\* One request at a time.
NextSeq ==
  \/ Receive(1, SeqRequests)
  \/ Replay(1)
  \/ Read(1)
  \/ Upsert(1, TRUE)
  \/ Refetch(1)
  \/ Reply(1)
  \/ Tick

SpecSeq == Init /\ [][NextSeq]_vars

(* ------------------------------ the claims --------------------------- *)

\* The request of slot r carries init data and met a configured server.
Presented(r) ==
  /\ pc[r] # "idle"
  /\ req[r].initData # EmptyInitData
  /\ req[r].env

\* C1: under any interleaving of requests, max_score and total_score of an
\* existing row never go down from one state of the store to the next.
C1_ScoresNeverDecrease ==
  [][\A i \in Ids :
       store[i].present =>
         /\ store'[i].present
         /\ store'[i].max_score >= store[i].max_score
         /\ store'[i].total_score >= store[i].total_score]_vars

\* C2: with one request handled at a time and the store empty at the start,
\* once the calls for an identity have been answered its max_score is the
\* greatest run score claimed by the calls that succeeded (scores below 0
\* left aside: they are raised to 0 before the merge).
C2_BestIsMaxOfRuns ==
  \A i \in Ids :
    (/\ \A r \in Slots : pc[r] \in {"idle", "done"}
     /\ bestClaim[i].any
     /\ bestClaim[i].max >= 0)
      => store[i].present /\ store[i].max_score = bestClaim[i].max

\* C3: a request that repeats the one that has just succeeded, with no other
\* request in between, leaves max_score, total_score and username as the
\* first run left them.
C3_ReplayIsIdempotent ==
  [][\A r \in Slots :
       (pc[r] = "upsert" /\ pc'[r] # "upsert" /\ replay[r]) =>
         /\ store'[telegramId[r]].max_score = store[telegramId[r]].max_score
         /\ store'[telegramId[r]].total_score = store[telegramId[r]].total_score
         /\ store'[telegramId[r]].username = store[telegramId[r]].username]_vars

\* now - auth_date of the request of slot r when it came in, a missing
\* auth_date counting as 0, is above 86400 or below 0.
StaleOnArrival(r) ==
  LET got == SearchGet(req[r].initData, "auth_date")
      authDate == IF got = <<>> THEN [nan |-> FALSE, n |-> 0] ELSE ParseInt(got[1])
  IN  /\ ~authDate.nan
      /\ \/ arrival[r] - authDate.n > MaxAge
         \/ arrival[r] - authDate.n < 0

\* C4: a request whose token is older than 86400 s, or from the future, is
\* answered 401 and writes nothing, whatever its signature.
C4_StaleTokenRejected ==
  \A r \in Slots :
    (Presented(r) /\ StaleOnArrival(r)) =>
      /\ pc[r] = "done"
      /\ resp[r].status = StatusUnauthorized
      /\ nWrites[r] = 0

\* The claimed hash of the request of slot r is not the hash computed over
\* the data-check string.
HashDiffers(r) ==
  req[r].initData.hash # CalcHash(BotToken, DataCheckStringStrict(req[r].initData))

\* C5: the strict variant answers 401 "Invalid Telegram signature" to every
\* request whose claimed hash differs from the computed one, and neither
\* reads nor writes the store for it.
C5_BadHashRejectedStrict ==
  \A r \in Slots :
    (variant = "strict" /\ Presented(r) /\ HashDiffers(r)) =>
      /\ pc[r] = "done"
      /\ resp[r] = ErrorResp(StatusUnauthorized, "Invalid Telegram signature")
      /\ nReads[r] = 0
      /\ nWrites[r] = 0

\* A forged hash on a token that would pass every other gate is turned away.
C5_Witness ==
  \E r \in Slots :
    /\ variant = "strict"
    /\ pc[r] = "done"
    /\ req[r].initData = Token(AuthPart("100000") \o UserPart(User1), "forged")
    /\ req[r].env
    /\ resp[r].status = StatusUnauthorized
    /\ nReads[r] = 0

\* C6: when the read of the current row fails, what the handler does next
\* leaves the store as it is and answers with a failure.
C6_ReadFailureSurfaced ==
  [][\A r \in Slots :
       (pc[r] = "upsert" /\ readErr[r] /\ pc'[r] # "upsert") =>
         /\ store' = store
         /\ pc'[r] = "done" => ~resp'[r].ok]_vars

\* C7: a successful response carries me, the stored row of the requester.
C7_SuccessCarriesOwnRow ==
  \A r \in Slots :
    (pc[r] = "done" /\ resp[r].ok) =>
      /\ resp[r].hasMe
      /\ resp[r].me.present
      /\ resp[r].me.telegram_id = telegramId[r]
      /\ resp[r].me = store[telegramId[r]]

\* C8: a row that has a username keeps one, under any interleaving, and the
\* write of a request whose displayName is absent, no string or not valid
\* leaves the username as it was.
C8_NameNeverLost ==
  [][\A i \in Ids :
       (store[i].present /\ store[i].username # Null) =>
         /\ store'[i].present
         /\ store'[i].username \notin {Null, <<>>}
         /\ \A r \in Slots :
              (/\ pc[r] = "upsert"
               /\ pc'[r] # "upsert"
               /\ telegramId[r] = i
               /\ ~NameOk(NameOf(req[r].displayName)))
                => store'[i].username = store[i].username]_vars

\* A request without a valid name has written a row that had a name, and
\* the row its upsert returned still has it.
C8_Witness ==
  \E r \in Slots :
    /\ pc[r] = "done"
    /\ resp[r].ok
    /\ resp[r].hasMe
    /\ nReads[r] = 1
    /\ ~NameOk(NameOf(req[r].displayName))
    /\ resp[r].me.username = Kitty

\* C9: a failed upsert is answered 500 with the store's message, and the
\* upsert is not tried again.
C9_UpsertFailureIs500 ==
  \A r \in Slots :
    (pc[r] = "done" /\ nWrites[r] > 0 /\ ~resp[r].ok) =>
      /\ resp[r].status = StatusServerError
      /\ resp[r].error = UpsertErrMessage
      /\ nWrites[r] = 1

\* The init data of the request of slot r yields no user id.
NoIdentity(r) ==
  LET got == SearchGet(req[r].initData, "user")
  IN  got = <<>> \/ UserIdOf(got[1]) = 0

\* C10 as stated: a request without identity is answered "No Telegram user"
\* whatever the freshness and signature checks say, without store access.
C10_NoIdentityWhateverTheChecks ==
  \A r \in Slots :
    (Presented(r) /\ NoIdentity(r)) =>
      /\ pc[r] = "done"
      /\ resp[r].error = "No Telegram user"
      /\ nReads[r] = 0
      /\ nWrites[r] = 0

\* The request of slot r is stopped by the checks that come before the
\* extraction of the user.
StoppedEarlier(r) ==
  IF variant = "permissive"
  THEN StaleOnArrival(r) \/ VerifyThrows(req[r].initData)
  ELSE HashDiffers(r)

\* C10 amended: a request without identity is always turned away without
\* store access; the answer is 400 "No Telegram user" exactly when the
\* earlier checks let it through, and the earlier check's answer otherwise.
C10_NoIdentityRejected ==
  \A r \in Slots :
    (Presented(r) /\ NoIdentity(r)) =>
      /\ pc[r] = "done"
      /\ ~resp[r].ok
      /\ nReads[r] = 0
      /\ nWrites[r] = 0
      /\ StoppedEarlier(r) => resp[r].status \in {StatusUnauthorized, StatusServerError}
      /\ ~StoppedEarlier(r) => resp[r] = ErrorResp(StatusBadRequest, "No Telegram user")

\* A fresh, signed token without a user is answered "No Telegram user".
C10_Witness ==
  \E r \in Slots :
    /\ pc[r] = "done"
    /\ NoIdentity(r)
    /\ ~StoppedEarlier(r)
    /\ req[r].env
    /\ resp[r].error = "No Telegram user"

\* A name as the specification accepts it: 4 to 15 characters, each a Latin
\* or Cyrillic letter, a digit, an underscore or a hyphen.
ValidName(name) ==
  /\ Len(name) >= 4
  /\ Len(name) <= 15
  /\ \A i \in 1..Len(name) :
       \/ name[i] \in 65..90
       \/ name[i] \in 97..122
       \/ name[i] \in 1040..1103
       \/ name[i] \in {1025, 1105}
       \/ name[i] \in 48..57
       \/ name[i] \in {95, 45}

\* The request of slot r carries a displayName that passes validation.
CarriesValidName(r) ==
  /\ req[r].displayName.t = "string"
  /\ ValidName(Trim(req[r].displayName.s))

\* The step is the successful upsert of the request of slot r.
Wrote(r) ==
  /\ pc[r] = "upsert"
  /\ \/ pc'[r] = "refetch"
     \/ pc'[r] = "done" /\ resp'[r].ok

\* C11 as stated: once a row has a username, no later request changes it to
\* a different value.
C11_NameAssignedOnce ==
  [][\A i \in Ids :
       (store[i].present /\ store[i].username # Null) =>
         store'[i].username = store[i].username]_vars

\* C11 amended: once a row has a username, it changes only by the write of a
\* request for that identity whose displayName passes validation, and then
\* to the trimmed displayName of that request.
C11_NameChangesOnlyToValidCandidate ==
  [][\A i \in Ids :
       (/\ store[i].present
        /\ store[i].username # Null
        /\ store'[i].username # store[i].username)
         => \E r \in Slots :
              /\ Wrote(r)
              /\ telegramId[r] = i
              /\ CarriesValidName(r)
              /\ store'[i].username = Trim(req[r].displayName.s)]_vars

\* Two requests of one identity have both been answered with the row as
\* their write left it, each with its own name: the name was set, then changed.
C11_Witness ==
  /\ \A r \in Slots : pc[r] = "done" /\ resp[r].ok /\ resp[r].hasMe /\ CarriesValidName(r)
  /\ telegramId[1] = telegramId[2]
  /\ resp[1].me.username # resp[2].me.username
  /\ resp[1].me.username = Trim(req[1].displayName.s)
  /\ resp[2].me.username = Trim(req[2].displayName.s)

\* The injective maps of 1..n onto itself.
Perms(n) == {f \in [1..n -> 1..n] : \A a, b \in 1..n : f[a] = f[b] => a = b}
\* The init data with its fields in the order f.
Permuted(initData, f) ==
  [pairs |-> [i \in 1..Len(initData.pairs) |-> initData.pairs[f[i]]],
   hash |-> initData.hash]
\* The data-check string the deployed variant computes.
Canonical(v, initData) ==
  IF v = "permissive" THEN DataCheckStringPermissive(initData)
  ELSE DataCheckStringStrict(initData)
Verified(v, initData) ==
  IF v = "permissive" THEN VerifyPermissive(initData, BotToken)
  ELSE VerifyStrict(initData, BotToken)

\* C12: every permutation of the fields of a token, a token that repeats a
\* key included, has the same data-check string, the same computed hash and
\* the same result of the verifier.
C12_CanonicalizationOrderIndependent ==
  \A r \in Slots :
    Presented(r) =>
      \A f \in Perms(Len(req[r].initData.pairs)) :
        LET other == Permuted(req[r].initData, f)
        IN  /\ Canonical(variant, other) = Canonical(variant, req[r].initData)
            /\ CalcHash(BotToken, Canonical(variant, other))
                 = CalcHash(BotToken, Canonical(variant, req[r].initData))
            /\ Verified(variant, other) = Verified(variant, req[r].initData)

\* The auth_date of the request of slot r was, when it came in, at most
\* 86400 s old and not in the future.
FreshOnArrival(r) ==
  LET got == SearchGet(req[r].initData, "auth_date")
  IN  /\ got # <<>>
      /\ ~ParseInt(got[1]).nan
      /\ arrival[r] - ParseInt(got[1]).n >= 0
      /\ arrival[r] - ParseInt(got[1]).n <= MaxAge

\* The id of the user object in the init data of the request of slot r.
IdentityOf(r) ==
  LET got == SearchGet(req[r].initData, "user")
  IN  IF got = <<>> THEN 0 ELSE UserIdOf(got[1])

\* The request of slot r with its hash part replaced: the platform's hash,
\* a hash made without the bot token, a hash over other fields, or none.
OtherHashes(r) ==
  {[req[r] EXCEPT !.initData.hash = h] :
     h \in {PlatformHash(BotToken, SelectSeq(req[r].initData.pairs, NotSignature)),
            PlatformHash(AttackerToken, SelectSeq(req[r].initData.pairs, NotSignature)),
            PlatformHash(BotToken, <<>>),
            <<>>}}

\* The request of slot r was turned away by a gate.
StoppedAtGate(r) == pc[r] = "done" /\ ~resp[r].ok /\ nReads[r] = 0 /\ nWrites[r] = 0

\* The request of slot r is past the gates under the id of its user object,
\* and once its upsert has succeeded the row of that id exists.
ReconciledUnderOwnId(r) ==
  /\ ~StoppedAtGate(r)
  /\ telegramId[r] = IdentityOf(r)
  /\ (pc[r] = "refetch" \/ (pc[r] = "done" /\ resp[r].ok)) =>
       /\ store[IdentityOf(r)].present
       /\ store[IdentityOf(r)].telegram_id = IdentityOf(r)

\* The gates answer the request of slot r the same whatever its hash part.
HashIsIrrelevant(r) ==
  \A q \in OtherHashes(r) :
    Gates(variant, q, arrival[r]) = Gates(variant, req[r], arrival[r])

Claimed(x) == IF x.t = "number" THEN x.n ELSE 0

\* C14: the row a successful upsert leaves holds the writer's own
\* candidates, computed from the row that writer read, whatever another
\* request has written to the row in between.
C14_LastWriterWins ==
  [][\A r \in Slots :
       Wrote(r) =>
         /\ store'[telegramId[r]].max_score
              = Max(CurrentMax(cur[r]), Claimed(req[r].runScore))
         /\ store'[telegramId[r]].total_score
              = Max(CurrentTotal(cur[r]), Claimed(req[r].totalScore))]_vars

\* Two requests of one identity, both read without error, have both written,
\* and the row's max_score is below the greater of the two claimed run scores.
C14_Witness ==
  /\ \A r \in Slots : pc[r] = "done" /\ resp[r].ok /\ ~readErr[r] /\ nWrites[r] = 1
  /\ telegramId[1] = telegramId[2]
  /\ store[telegramId[1]].max_score
       < Max(Claimed(req[1].runScore), Claimed(req[2].runScore))

\* C15: under any interleaving, the scores a request writes are not below
\* the scores that were persisted before it, and the requests it overlaps
\* with, began.
C15_WritesNeverBelowPrior ==
  [][\A r \in Slots :
       Wrote(r) =>
         /\ store'[telegramId[r]].max_score >= prior[r].max
         /\ store'[telegramId[r]].total_score >= prior[r].total]_vars

\* C16: the row a successful upsert leaves for a request whose displayName
\* passes validation has the trimmed displayName as its username, whether
\* the request read no row or a row with another name.
C16_ValidNameOverwrites ==
  [][\A r \in Slots :
       (Wrote(r) /\ CarriesValidName(r)) =>
         store'[telegramId[r]].username = Trim(req[r].displayName.s)]_vars

\* A request whose displayName needs trimming has been answered with the
\* trimmed name in its row, while the other request of that identity had
\* read the row with another name.
C16_Witness ==
  \E r, o \in Slots :
    /\ pc[r] = "done" /\ resp[r].ok /\ resp[r].hasMe
    /\ CarriesValidName(r)
    /\ req[r].displayName.s # Trim(req[r].displayName.s)
    /\ resp[r].me.username = Trim(req[r].displayName.s)
    /\ pc[o] = "upsert"
    /\ telegramId[o] = telegramId[r]
    /\ cur[o].present
    /\ cur[o].username \notin {Null, resp[r].me.username}

\* One of the conditions the deployed variant rejects a request for holds
\* of the request of slot r: no initData, no configuration, a stale
\* auth_date (permissive), a hash that does not match (strict), no identity.
RejectedFor(r) ==
  \/ req[r].initData = EmptyInitData
  \/ ~req[r].env
  \/ variant = "permissive" /\ StaleOnArrival(r)
  \/ variant = "strict" /\ HashDiffers(r)
  \/ NoIdentity(r)

\* C17: a request that one of the gates rejects is answered without a read
\* or a write of the store, and the step that rejects it leaves the store
\* as it is.
C17_StoreOnlyAfterGates ==
  [][\A r \in Slots :
       (pc'[r] # "idle" /\ RejectedFor(r)') =>
         /\ StoppedAtGate(r)'
         /\ ~StoppedAtGate(r) => store' = store]_vars

\* A stale request has been turned away while the store holds a row.
C17_Witness ==
  \E r \in Slots :
    /\ variant = "permissive"
    /\ StaleOnArrival(r)
    /\ IdentityOf(r) = 1
    /\ StoppedAtGate(r)
    /\ resp[r].status = StatusUnauthorized
    /\ store[1].present

\* C18: the scores of every stored row are at least 0, and what a successful
\* upsert leaves is max(current or 0, max(claimed, 0)), for negative and
\* absent claimed scores as well.
C18_ScoresNotNegative ==
  [][/\ \A i \in Ids :
          /\ store[i].max_score >= 0 /\ store[i].total_score >= 0
          /\ store'[i].max_score >= 0 /\ store'[i].total_score >= 0
     /\ \A r \in Slots :
          Wrote(r) =>
            /\ store'[telegramId[r]].max_score
                 = Max(IF cur[r].present THEN cur[r].max_score ELSE 0,
                       Max(Claimed(req[r].runScore), 0))
            /\ store'[telegramId[r]].total_score
                 = Max(IF cur[r].present THEN cur[r].total_score ELSE 0,
                       Max(Claimed(req[r].totalScore), 0))]_vars

\* A first request with a negative run score and no total score has been
\* answered with a row whose scores are 0.
C18_Witness ==
  \E r \in Slots :
    /\ pc[r] = "done" /\ resp[r].ok /\ resp[r].hasMe
    /\ nReads[r] = 1
    /\ req[r].runScore = Num(-1)
    /\ req[r].totalScore = Undefined
    /\ resp[r].me.present
    /\ resp[r].me.max_score = 0
    /\ resp[r].me.total_score = 0

\* The step is the upsert of the request of slot r, failed or not.
Upserted(r) == pc[r] = "upsert" /\ pc'[r] # "upsert"

\* C19: a request issues at most one upsert, keyed by the id of its user
\* object; the upsert leaves every other row as it is; the store changes by
\* upserts only, and the row of an id stays the row of that id.
C19_OneUpsertOwnRowOnly ==
  [][/\ \A r \in Slots :
          /\ nWrites'[r] <= 1
          /\ Upserted(r) =>
               /\ telegramId[r] = IdentityOf(r)
               /\ \A i \in Ids \ {IdentityOf(r)} : store'[i] = store[i]
     /\ \A i \in Ids :
          /\ store[i].present => store'[i].present
          /\ store'[i].present => store'[i].telegram_id = i
          /\ store'[i] # store[i] => \E r \in Slots : Upserted(r) /\ IdentityOf(r) = i]_vars

\* Both identities have a row, and the request of user 1 that wrote last
\* left the row of user 2 with its own score.
C19_Witness ==
  \E r \in Slots :
    /\ pc[r] = "done" /\ resp[r].ok
    /\ nWrites[r] = 1
    /\ IdentityOf(r) = 1
    /\ store[1].present /\ store[1].telegram_id = 1
    /\ store[2].present /\ store[2].telegram_id = 2
    /\ store[1].total_score # store[2].total_score

\* C20: the username of every stored row is unset or a validated name with
\* no white space around it.
C20_StoredNamesAreValid ==
  \A i \in Ids :
    (store[i].present /\ store[i].username # Null) =>
      /\ ValidName(store[i].username)
      /\ Trim(store[i].username) = store[i].username

\* A request with a displayName that does not pass validation has written
\* the row, and the row has the validated name an earlier request gave it.
C20_Witness ==
  \E r \in Slots :
    /\ pc[r] = "done" /\ resp[r].ok
    /\ nWrites[r] = 1
    /\ req[r].displayName.t = "string"
    /\ req[r].displayName.s # <<>>
    /\ ~ValidName(Trim(req[r].displayName.s))
    /\ store[telegramId[r]].username # Null
    /\ ValidName(store[telegramId[r]].username)

====
